---- MODULE Spec2Model ----
(***************************************************************************)
(* Model of the Renpho BLE scale client: the packet parser (protocol.ts),  *)
(* the RenphoScale session (event emitter, packet handling, idle timer,    *)
(* destroy) and the runMessageLoop supervisor.                             *)
(*                                                                         *)
(* JavaScript runs one job at a time.  An action of the model is one       *)
(* macrotask (a notification, a timer expiry, the completion of a          *)
(* transport call) together with every promise continuation (microtask)    *)
(* that it makes runnable, because those run before the next macrotask.    *)
(*                                                                         *)
(* Numbers with two decimals (the weight) are kept in hundredths.          *)
(***************************************************************************)
EXTENDS Integers, Sequences, FiniteSets, TLC

\* ---------------------------------------------------------------- bounds
MaxSessions == 2      \* sessions the supervisor may create
MaxFails    == 1      \* failed connection attempts
MaxNotifs   == 1      \* notifications delivered, over all sessions

\* ------------------------------------------------------- JavaScript values
Undefined == -1       \* the value `undefined` (no byte or weight is negative)
NaN       == -2       \* the value NaN

\* a read past the end of the buffer that gives 0
At_zero(buf, i) == IF i >= 0 /\ i < Len(buf) THEN buf[i + 1] ELSE 0

\* buf[i] of a Buffer, 0-based; out of range reads give undefined
At(buf, i) == IF i >= 0 /\ i < Len(buf) THEN buf[i + 1] ELSE Undefined

\* x << n on a byte: ToInt32(undefined) is 0; a byte shifted by 8 stays
\* far below 2^31, so the 32-bit wrap of << never applies
Shl(x, n) == IF x = Undefined THEN 0 ELSE x * (2 ^ n)

\* a + b where a is a number: number + undefined is NaN
Plus(a, b) == IF a = NaN \/ b = Undefined \/ b = NaN THEN NaN ELSE a + b

\* p.<name>: reading a property the object does not have gives undefined
Prop(p, name) == IF name \in DOMAIN p THEN p[name] ELSE Undefined

\* ------------------------------------------------------------ protocol.ts
parseIncomingPacket(buf) ==
  LET packetId == At(buf, 0)
      packet   == [packetId |-> packetId,
                   len      |-> At(buf, 1),
                   checksum |-> At(buf, Len(buf) - 1),
                   data     |-> buf]
  IN  IF packetId = 16
      THEN packet @@ [scaleType |-> At(buf, 2),
                      weight    |-> Plus(Shl(At(buf, 3), 8), At(buf, 4))]
      ELSE packet

\* ----------------------------------------------------------- fixed frames
magicBytesForFirstPacket  == <<19, 9, 21, 1, 16, 0, 0, 0, 66>>
magicBytesForSecondPacket == <<32, 8, 21, 9, 11, 172, 41, 38>>
stopPacket                == <<31, 5, 21, 16, 73>>

\* The frames of the protocol, as the scale sends them to a session under
\* the supervisor: the two handshake packets, a live and a settled weight
FrameInit     == <<18, 4, 21, 43>>
FrameAck      == <<20, 4, 21, 45>>
FrameLive     == <<16, 7, 21, 4, 76, 0, 124>>
FrameSettled  == <<16, 7, 21, 29, 76, 1, 150>>
Frames == {FrameInit, FrameAck, FrameLive, FrameSettled}

\* Other buffers a notification may carry: a weight with another flag, an
\* unknown id, truncated frames, the empty buffer
FrameOddFlag  == <<16, 7, 21, 4, 76, 2, 126>>
FrameUnknown  == <<33, 4, 21, 58>>
FrameTiny     == <<18, 2>>
AnyFrames == Frames \cup {FrameOddFlag, FrameUnknown, FrameTiny, <<20>>, <<16, 7>>, <<>>}

\* ------------------------------------------------------------------ state
VARIABLES
  once,                 \* opts.once
  pc,                   \* where runMessageLoop is suspended
  cur,                  \* the session connectAndHandle created last (0: none)
  destroyScaleSession,  \* the session whose destructor the loop holds (0: undefined)
  nConnect,             \* invocations of RenphoScale.connect
  nFail,                \* invocations of RenphoScale.connect that raised
  nBtDestroy,           \* calls of destroyBluetooth
  scale,                \* the RenphoScale instances and their transport
  bus                   \* an emitter driven directly through on/once/off/emit

vars == <<once, pc, cur, destroyScaleSession, nConnect, nFail, nBtDestroy, scale, bus>>

Sessions == 1 .. MaxSessions

\* A RenphoScale instance after its constructor, with the state of the
\* characteristic it listens on and the history of what it did.
NewScale ==
  [constructed   |-> FALSE,
   listeners     |-> [liveupdate |-> <<>>, measurement |-> <<>>,
                      data |-> <<>>, timeout |-> <<>>],
   timeoutHandle |-> FALSE,   \* this.timeoutHandle is set (the clock is ticking)
   eventChar     |-> FALSE,   \* this.eventChar is set
   didTimeout    |-> FALSE,
   handlerOn     |-> FALSE,   \* handleValueChange is registered for valuechanged
   notifying     |-> FALSE,   \* the characteristic delivers notifications
   stopPending   |-> 0,       \* stopNotifications calls that have not returned
   raiseFlag     |-> "unset", \* "unset", "set" (promise pending), "resolved"
   pending       |-> <<>>,    \* handlePacket calls suspended in sendCommand
   nRecv         |-> 0,       \* notifications handled
   nStop         |-> 0,       \* calls of stopNotifications
   nOff          |-> 0,       \* removals of the valuechanged handler
   nDestroy      |-> 0,       \* calls of destroy
   nArm          |-> 0,       \* calls of resetTimer
   thrown        |-> FALSE,   \* a listener threw and the exception is propagating
   log           |-> <<>>]    \* emissions and writes, in order

\* An emitter on its own: the listener arrays, the emit calls in progress
\* (innermost last) and the history of handler invocations.
NewBus ==
  [listeners |-> [liveupdate |-> <<>>, measurement |-> <<>>,
                  data |-> <<>>, timeout |-> <<>>],
   stack     |-> <<>>,
   count     |-> <<>>,        \* per registration: invocations through its wrapper
   re        |-> <<>>,        \* per registration: its handler emitted again
   nReg      |-> 0,           \* on/once registrations made
   nEmit     |-> 0]           \* emit calls made from outside a handler

Entry(ev, n, val, buf) == [ev |-> ev, n |-> n, val |-> val, buf |-> buf]

\* ---------------------------------------------------------- RenphoScale
\* resetTimer: clear a ticking timer, start a new one
resetTimer(r) == [r EXCEPT !.timeoutHandle = TRUE, !.nArm = @ + 1]

\* a timeout or measurement listener that never resolves the promise
raiseFlagListener_ignore(r) == r

\* the listener the supervisor registers for timeout and measurement
raiseFlagListener(r) ==
  IF r.raiseFlag = "set" THEN [r EXCEPT !.raiseFlag = "resolved"] ELSE r

\* on(eventName, handler)
on(r, eventName, fn) == [r EXCEPT !.listeners[eventName] = Append(@, fn)]

\* Remove(s, i): the sequence s without its i-th element (splice(i - 1, 1))
Remove(s, i) == SubSeq(s, 1, i - 1) \o SubSeq(s, i + 1, Len(s))

\* off(eventName, handler): remove the first listener identical to fn
off(r, eventName, fn) ==
  LET listeners == r.listeners[eventName]
      found     == {i \in 1 .. Len(listeners) : listeners[i] = fn}
  IN  IF found # {}
      THEN [r EXCEPT !.listeners[eventName] =
              Remove(@, CHOOSE i \in found : \A j \in found : i <= j)]
      ELSE r

\* off(eventName): remove all listeners of the event
offAll(r, eventName) == [r EXCEPT !.listeners[eventName] = <<>>]

\* a wrapper that does not deregister itself
wrappedHandler_keep(r, eventName, fn) == r

\* what wrappedHandler does before it calls the handler: off(eventName, self)
wrappedHandler(r, eventName, fn) == off(r, eventName, fn)

\* A listener of a session is called.  The session's own listeners are
\* "resetTimer" and "raiseFlag"; a collaborator's are "plain" (returns),
\* "throws" (raises) and "once" (the wrapper once() made around a handler
\* that returns).
CallListener(r, eventName, fn) ==
  CASE fn = "resetTimer" -> resetTimer(r)
    [] fn = "raiseFlag"  -> raiseFlagListener(r)
    [] fn = "once"       -> wrappedHandler(r, eventName, fn)
    [] fn = "throws"     -> [r EXCEPT !.thrown = TRUE]
    [] OTHER             -> r

\* listeners.forEach(fn => fn(...args)) from index k (0-based) on: forEach
\* fixes the bound len when it starts, visits only indices the array
\* still has, and ends when a listener throws
RECURSIVE forEach(_, _, _, _)
forEach(r, eventName, k, len) ==
  IF k >= len \/ r.thrown THEN r
  ELSE IF k >= Len(r.listeners[eventName]) THEN forEach(r, eventName, k + 1, len)
  ELSE forEach(CallListener(r, eventName, r.listeners[eventName][k + 1]),
               eventName, k + 1, len)

\* emit(eventName, ...args); n is the notification the emission belongs to,
\* val the number passed (for data: the packet's id) and buf the packet's data
emit(r, eventName, n, val, buf) ==
  LET r1 == [r EXCEPT !.log = Append(@, Entry(eventName, n, val, buf))]
  IN  forEach(r1, eventName, 0, Len(r1.listeners[eventName]))

\* The function once() registers: a wrapper, identified by w, around h.
Wrapper(h, w) == [h |-> h, w |-> w]

\* once(eventName, handler): register a new wrapper
onceReg(r, eventName, h, w) == on(r, eventName, Wrapper(h, w))

\* sendCommand up to its await: writeValue is called, the caller is suspended
sendCommand(r, n, buf, then) ==
  [r EXCEPT !.log     = Append(@, Entry("write", n, 0, buf)),
            !.pending = Append(@, [n |-> n, then |-> then, p |-> 0])]

\* handlePacket answering the second handshake packet with the first reply
handlePacket_sameReply(r, n, p) ==
  LET r1 == emit(r, "data", n, p.packetId, p.data)
  IN  IF r1.thrown THEN r1 ELSE
      CASE p.packetId = 18 -> sendCommand(r1, n, magicBytesForFirstPacket, "return")
        [] p.packetId = 20 -> sendCommand(r1, n, magicBytesForFirstPacket, "return")
        [] p.packetId = 16 ->
             LET flag == At(p.data, 5)
             IN  IF flag = 0 THEN emit(r1, "liveupdate", n, Prop(p, "weightValue"), <<>>)
                 ELSE IF flag = 1
                 THEN [sendCommand(r1, n, stopPacket, "measurement")
                         EXCEPT !.pending[Len(r1.pending) + 1].p = Prop(p, "weightValue")]
                 ELSE r1
        [] OTHER -> r1

\* handlePacket treating every flag other than 1 as a live update
handlePacket_liveUnlessSettled(r, n, p) ==
  LET r1 == emit(r, "data", n, p.packetId, p.data)
  IN  IF r1.thrown THEN r1 ELSE
      CASE p.packetId = 18 -> sendCommand(r1, n, magicBytesForFirstPacket, "return")
        [] p.packetId = 20 -> sendCommand(r1, n, magicBytesForSecondPacket, "return")
        [] p.packetId = 16 ->
             LET flag == At(p.data, 5)
             IN  IF flag = 1
                 THEN [sendCommand(r1, n, stopPacket, "measurement")
                         EXCEPT !.pending[Len(r1.pending) + 1].p = Prop(p, "weightValue")]
                 ELSE emit(r1, "liveupdate", n, Prop(p, "weightValue"), <<>>)
        [] OTHER -> r1

\* handlePacket answering a packet it does not recognize like the first
\* handshake packet
handlePacket_defaultReplies(r, n, p) ==
  LET r1 == emit(r, "data", n, p.packetId, p.data)
  IN  IF r1.thrown THEN r1 ELSE
      CASE p.packetId = 18 -> sendCommand(r1, n, magicBytesForFirstPacket, "return")
        [] p.packetId = 20 -> sendCommand(r1, n, magicBytesForSecondPacket, "return")
        [] p.packetId = 16 ->
             LET flag == At(p.data, 5)
             IN  IF flag = 0 THEN emit(r1, "liveupdate", n, Prop(p, "weightValue"), <<>>)
                 ELSE IF flag = 1
                 THEN [sendCommand(r1, n, stopPacket, "measurement")
                         EXCEPT !.pending[Len(r1.pending) + 1].p = Prop(p, "weightValue")]
                 ELSE r1
        [] OTHER -> sendCommand(r1, n, magicBytesForFirstPacket, "return")

\* handlePacket up to its first await (or to its end)
handlePacket(r, n, p) ==
  LET r1 == emit(r, "data", n, p.packetId, p.data)
  IN  IF r1.thrown THEN r1 ELSE
      CASE p.packetId = 18 -> sendCommand(r1, n, magicBytesForFirstPacket, "return")
        [] p.packetId = 20 -> sendCommand(r1, n, magicBytesForSecondPacket, "return")
        [] p.packetId = 16 ->
             LET flag == At(p.data, 5)
             IN  IF flag = 0 THEN emit(r1, "liveupdate", n, Prop(p, "weightValue"), <<>>)
                 ELSE IF flag = 1
                 THEN [sendCommand(r1, n, stopPacket, "measurement")
                         EXCEPT !.pending[Len(r1.pending) + 1].p = Prop(p, "weightValue")]
                 ELSE r1
        [] OTHER -> r1

\* handlePacket emitting the settled weight as one more live update
afterSendCommand_live(r, w) ==
  IF w.then = "measurement" THEN emit(r, "liveupdate", w.n, w.p, <<>>) ELSE r

\* handlePacket after `await this.sendCommand(...)` returned
afterSendCommand(r, w) ==
  IF w.then = "measurement" THEN emit(r, "measurement", w.n, w.p, <<>>) ELSE r

\* handleValueChange(buf); its catch logs what handlePacket raised
handleValueChange(r, buf) ==
  IF r.didTimeout THEN r
  ELSE [handlePacket([r EXCEPT !.nRecv = @ + 1], r.nRecv + 1,
                     parseIncomingPacket(buf))
          EXCEPT !.thrown = FALSE]

\* stopListening up to its await
stopListening(r) ==
  IF ~r.eventChar THEN r
  ELSE [r EXCEPT !.stopPending = @ + 1, !.nStop = @ + 1]

\* destroy up to its await
destroy(r) ==
  stopListening([r EXCEPT !.timeoutHandle = FALSE, !.nDestroy = @ + 1])

\* handleTimeout (the timer callback)
handleTimeout(r) ==
  LET r1 == emit([r EXCEPT !.didTimeout = TRUE], "timeout", 0, 0, <<>>)
      r2 == [r1 EXCEPT !.handlerOn = FALSE,
                       !.nOff = IF r1.handlerOn THEN @ + 1 ELSE @]
  IN  destroy(r2)

\* startListening from the characteristics being resolved up to
\* `await eventChar.startNotifications()`
startListeningSubscribe(r) == [r EXCEPT !.handlerOn = TRUE]

\* startListening after `await eventChar.startNotifications()` returned
startListeningTail(r) ==
  on(resetTimer([r EXCEPT !.notifying = TRUE, !.eventChar = TRUE]),
     "data", "resetTimer")

\* notifications handled by the sessions 1 .. k
RECURSIVE TotalRecv(_)
TotalRecv(k) == IF k = 0 THEN 0 ELSE scale[k].nRecv + TotalRecv(k - 1)


\* -------------------------------------------------------- runMessageLoop
Init ==
  /\ once \in BOOLEAN
  /\ pc = "defaultAdapter"
  /\ cur = 0
  /\ destroyScaleSession = 0
  /\ nConnect = 0
  /\ nFail = 0
  /\ nBtDestroy = 0
  /\ scale = [s \in Sessions |-> NewScale]
  /\ bus = NewBus

\* the finally block: release the held session, then the bluetooth object
Finally(sc, held) ==
  /\ pc' = "done"
  /\ nBtDestroy' = nBtDestroy + 1
  /\ scale' = IF held = 0 THEN sc ELSE [sc EXCEPT ![held] = destroy(sc[held])]

\* `await bluetooth.defaultAdapter()` returned
DefaultAdapterOk ==
  /\ pc = "defaultAdapter"
  /\ pc' = "connect"
  /\ UNCHANGED <<bus, once, cur, destroyScaleSession, nConnect, nFail, nBtDestroy, scale>>

\* `await bluetooth.defaultAdapter()` raised: the error leaves the function
DefaultAdapterFail ==
  /\ pc = "defaultAdapter"
  /\ Finally(scale, destroyScaleSession)
  /\ UNCHANGED <<bus, once, cur, destroyScaleSession, nConnect, nFail>>

\* connectAndHandle: RenphoScale.connect returned a new instance; the
\* session-ended listeners are registered and startListening is entered
ConnectOk ==
  /\ pc = "connect"
  /\ cur < MaxSessions
  /\ cur' = cur + 1
  /\ nConnect' = nConnect + 1
  /\ scale' = [scale EXCEPT ![cur + 1] =
                 on(on([NewScale EXCEPT !.constructed = TRUE],
                       "timeout", "raiseFlag"),
                    "measurement", "raiseFlag")]
  /\ pc' = "getCharacteristic"
  /\ UNCHANGED <<bus, once, destroyScaleSession, nFail, nBtDestroy>>

\* RenphoScale.connect raised and the error left the loop
ConnectFail_uncaught ==
  /\ pc = "connect"
  /\ nFail < MaxFails
  /\ nConnect' = nConnect + 1
  /\ nFail' = nFail + 1
  /\ Finally(scale, destroyScaleSession)
  /\ UNCHANGED <<bus, once, cur, destroyScaleSession>>

\* connectAndHandle: RenphoScale.connect raised; the loop catches and retries
ConnectFail ==
  /\ pc = "connect"
  /\ nFail < MaxFails
  /\ nConnect' = nConnect + 1
  /\ nFail' = nFail + 1
  /\ pc' = "delay"
  /\ UNCHANGED <<bus, once, cur, destroyScaleSession, nBtDestroy, scale>>

\* startListening: service and characteristics resolved, handler registered
GetCharacteristicOk ==
  /\ pc = "getCharacteristic"
  /\ scale' = [scale EXCEPT ![cur] = startListeningSubscribe(@)]
  /\ pc' = "startNotifications"
  /\ UNCHANGED <<bus, once, cur, destroyScaleSession, nConnect, nFail, nBtDestroy>>

\* startListening raised while resolving or subscribing; the loop catches
StartListeningFail ==
  /\ pc \in {"getCharacteristic", "startNotifications"}
  /\ pc' = "delay"
  /\ UNCHANGED <<bus, once, cur, destroyScaleSession, nConnect, nFail, nBtDestroy, scale>>

\* startNotifications returned: timer armed, then connectAndHandle waits
\* for raiseFlag
StartNotificationsOk ==
  /\ pc = "startNotifications"
  /\ scale' = [scale EXCEPT ![cur] =
                 [startListeningTail(@) EXCEPT !.raiseFlag = "set"]]
  /\ pc' = "waitFlag"
  /\ UNCHANGED <<bus, once, cur, destroyScaleSession, nConnect, nFail, nBtDestroy>>

\* `await delay(1)` returned: next iteration
DelayDone ==
  /\ pc = "delay"
  /\ pc' = "connect"
  /\ UNCHANGED <<bus, once, cur, destroyScaleSession, nConnect, nFail, nBtDestroy, scale>>

\* A job changed session s into r.  If it resolved the promise that
\* connectAndHandle awaits, the loop continues before the next job:
\* the destructor is stored, then `break` and finally, or the delay.
Settle(s, r) ==
  LET sc == [scale EXCEPT ![s] = r]
  IN  IF pc = "waitFlag" /\ cur = s /\ scale[s].raiseFlag = "set"
         /\ r.raiseFlag = "resolved"
      THEN /\ destroyScaleSession' = s
           /\ IF once THEN Finally(sc, s)
                      ELSE /\ pc' = "delay"
                           /\ scale' = sc
                           /\ UNCHANGED nBtDestroy
      ELSE /\ scale' = sc
           /\ UNCHANGED <<pc, destroyScaleSession, nBtDestroy>>

\* ------------------------------------------------- transport and timer jobs
\* the characteristic notifies: valuechanged(buf)
Notify(s, buf) ==
  /\ scale[s].notifying /\ scale[s].handlerOn
  /\ TotalRecv(MaxSessions) < MaxNotifs
  /\ Settle(s, handleValueChange(scale[s], buf))
  /\ UNCHANGED <<bus, once, cur, nConnect, nFail>>

\* a pending writeValue returned
WriteOk(s, i) ==
  /\ i \in 1 .. Len(scale[s].pending)
  /\ Settle(s, afterSendCommand([scale[s] EXCEPT !.pending = Remove(@, i)],
                                scale[s].pending[i]))
  /\ UNCHANGED <<bus, once, cur, nConnect, nFail>>

\* a pending writeValue raised: handlePacket rejects, handleValueChange's
\* catch logs it
WriteFail(s, i) ==
  /\ i \in 1 .. Len(scale[s].pending)
  /\ Settle(s, [scale[s] EXCEPT !.pending = Remove(@, i)])
  /\ UNCHANGED <<bus, once, cur, nConnect, nFail>>

\* the idle timer expires
TimerFire(s) ==
  /\ scale[s].timeoutHandle
  /\ Settle(s, handleTimeout(scale[s]))
  /\ UNCHANGED <<bus, once, cur, nConnect, nFail>>

\* a pending stopNotifications returned: the characteristic stops
\* notifying, then stopListening clears this.eventChar
StopNotificationsOk(s) ==
  /\ scale[s].stopPending > 0
  /\ Settle(s, [scale[s] EXCEPT !.stopPending = @ - 1, !.notifying = FALSE,
                                !.eventChar = FALSE])
  /\ UNCHANGED <<bus, once, cur, nConnect, nFail>>

\* a pending stopNotifications raised because the characteristic was not
\* notifying any more (a second unsubscribe): destroy's catch swallows it
StopNotificationsFail(s) ==
  /\ scale[s].stopPending > 0
  /\ ~scale[s].notifying
  /\ Settle(s, [scale[s] EXCEPT !.stopPending = @ - 1])
  /\ UNCHANGED <<bus, once, cur, nConnect, nFail>>

Next ==
  \/ DefaultAdapterOk
  \/ DefaultAdapterFail
  \/ ConnectOk
  \/ ConnectFail
  \/ GetCharacteristicOk
  \/ StartListeningFail
  \/ StartNotificationsOk
  \/ DelayDone
  \/ \E s \in Sessions, buf \in Frames : Notify(s, buf)
  \/ \E s \in Sessions, i \in 1 .. MaxNotifs : WriteOk(s, i)
  \/ \E s \in Sessions, i \in 1 .. MaxNotifs : WriteFail(s, i)
  \/ \E s \in Sessions : TimerFire(s)
  \/ \E s \in Sessions : StopNotificationsOk(s)
  \/ \E s \in Sessions : StopNotificationsFail(s)

Spec == Init /\ [][Next]_vars

\* the loop with the scheduling the claim of C13 assumes: the
\* inter-attempt delay returns
SpecLive == Init /\ [][Next]_vars /\ WF_vars(DelayDone)

\* ------------------------------------- a session used without the loop
MaxFrames   == 2    \* notifications delivered to the session
MaxDestroys == 1    \* destroy() calls made by the owner of the session

\* A RenphoScale whose owner called startListening, which is suspended in
\* `await eventChar.startNotifications()`; runMessageLoop is not running
InitSession ==
  /\ once = FALSE
  /\ pc = "detached"
  /\ cur = 0
  /\ destroyScaleSession = 0
  /\ nConnect = 0
  /\ nFail = 0
  /\ nBtDestroy = 0
  /\ scale = [s \in Sessions |->
                IF s = 1
                THEN startListeningSubscribe([NewScale EXCEPT !.constructed = TRUE])
                ELSE NewScale]
  /\ bus = NewBus

\* startNotifications returned: the rest of startListening runs
SessionStart ==
  /\ pc = "detached"
  /\ ~scale[1].eventChar /\ ~scale[1].notifying /\ scale[1].nDestroy = 0
  /\ scale' = [scale EXCEPT ![1] = startListeningTail(@)]
  /\ UNCHANGED <<bus, once, pc, cur, destroyScaleSession, nConnect, nFail, nBtDestroy>>

\* the characteristic notifies the session with any buffer
SessionNotify(buf) ==
  /\ pc = "detached"
  /\ scale[1].notifying /\ scale[1].handlerOn
  /\ scale[1].nRecv < MaxFrames
  /\ scale' = [scale EXCEPT ![1] = handleValueChange(@, buf)]
  /\ UNCHANGED <<bus, once, pc, cur, destroyScaleSession, nConnect, nFail, nBtDestroy>>

\* destroy() calls that did not come from handleTimeout
OwnerDestroys(r) ==
  r.nDestroy - Len(SelectSeq(r.log, LAMBDA e : e.ev = "timeout"))

\* the owner of the session calls destroy()
SessionDestroy ==
  /\ pc = "detached"
  /\ OwnerDestroys(scale[1]) < MaxDestroys
  /\ scale' = [scale EXCEPT ![1] = destroy(@)]
  /\ UNCHANGED <<bus, once, pc, cur, destroyScaleSession, nConnect, nFail, nBtDestroy>>

NextSession ==
  \/ SessionStart
  \/ \E buf \in AnyFrames : SessionNotify(buf)
  \/ SessionDestroy
  \/ \E s \in Sessions, i \in 1 .. MaxFrames : WriteOk(s, i)
  \/ \E s \in Sessions, i \in 1 .. MaxFrames : WriteFail(s, i)
  \/ \E s \in Sessions : TimerFire(s)
  \/ \E s \in Sessions : StopNotificationsOk(s)
  \/ \E s \in Sessions : StopNotificationsFail(s)

SpecSession == InitSession /\ [][NextSession]_vars

\* ------------------- a session whose collaborators change its listeners
MaxListeners == 2   \* data listeners present when a collaborator adds one

\* a collaborator calls on("data", fn) with a handler that returns or throws
CollabOn(fn) ==
  /\ pc = "detached"
  /\ Len(scale[1].listeners["data"]) < MaxListeners
  /\ scale' = [scale EXCEPT ![1] = on(@, "data", fn)]
  /\ UNCHANGED <<bus, once, pc, cur, destroyScaleSession, nConnect, nFail, nBtDestroy>>

\* a collaborator calls once("data", handler): on("data", wrappedHandler)
CollabOnce ==
  /\ pc = "detached"
  /\ Len(scale[1].listeners["data"]) < MaxListeners
  /\ scale' = [scale EXCEPT ![1] = on(@, "data", "once")]
  /\ UNCHANGED <<bus, once, pc, cur, destroyScaleSession, nConnect, nFail, nBtDestroy>>

\* a collaborator calls off("data", fn) with a handler it registered
CollabOff(fn) ==
  /\ pc = "detached"
  /\ scale' = [scale EXCEPT ![1] = off(@, "data", fn)]
  /\ scale' # scale
  /\ UNCHANGED <<bus, once, pc, cur, destroyScaleSession, nConnect, nFail, nBtDestroy>>

\* a collaborator calls off("data")
CollabOffAll ==
  /\ pc = "detached"
  /\ scale[1].listeners["data"] # <<>>
  /\ scale' = [scale EXCEPT ![1] = offAll(@, "data")]
  /\ UNCHANGED <<bus, once, pc, cur, destroyScaleSession, nConnect, nFail, nBtDestroy>>

NextCollab ==
  \/ SessionStart
  \/ \E buf \in Frames : SessionNotify(buf)
  \/ \E fn \in {"plain", "throws"} : CollabOn(fn)
  \/ CollabOnce
  \/ \E fn \in {"plain", "throws"} : CollabOff(fn)
  \/ CollabOffAll
  \/ \E s \in Sessions, i \in 1 .. MaxFrames : WriteOk(s, i)
  \/ \E s \in Sessions, i \in 1 .. MaxFrames : WriteFail(s, i)
  \/ \E s \in Sessions : TimerFire(s)
  \/ \E s \in Sessions : StopNotificationsOk(s)

SpecCollab == InitSession /\ [][NextCollab]_vars

\* --------------------------------------------- the emitter on its own
MaxRegs   == 3      \* on/once registrations
MaxEmits  == 2      \* emit calls made from outside a handler
MaxDepth  == 2      \* emit calls in progress at once (re-entrancy)

Handlers  == {"h1", "h2"}
BusEvents == {"data", "timeout"}

svars == <<once, pc, cur, destroyScaleSession, nConnect, nFail, nBtDestroy, scale>>

\* One emit call in progress: forEach's position k and fixed bound len,
\* the listeners registered when it started, the listeners it has called,
\* and whether no other emit ran inside it.
EmitFrame(b, ev, arg, clean) ==
  [ev |-> ev, k |-> 0, len |-> Len(b.listeners[ev]), arg |-> arg,
   snap |-> b.listeners[ev], called |-> <<>>, clean |-> clean]

InitBus ==
  /\ once = FALSE
  /\ pc = "defaultAdapter"
  /\ cur = 0
  /\ destroyScaleSession = 0
  /\ nConnect = 0
  /\ nFail = 0
  /\ nBtDestroy = 0
  /\ scale = [s \in Sessions |-> NewScale]
  /\ bus = NewBus

\* on(ev, h), called from outside any handler
BusOn(ev, h) ==
  /\ bus.stack = <<>>
  /\ bus.nReg < MaxRegs
  /\ bus' = [on(bus, ev, Wrapper(h, 0)) EXCEPT !.nReg = @ + 1,
                !.count = Append(@, 0), !.re = Append(@, FALSE)]
  /\ UNCHANGED svars

\* once(ev, h), called from outside any handler
BusOnce(ev, h) ==
  /\ bus.stack = <<>>
  /\ bus.nReg < MaxRegs
  /\ bus' = [onceReg(bus, ev, h, bus.nReg + 1) EXCEPT !.nReg = @ + 1,
                !.count = Append(@, 0), !.re = Append(@, FALSE)]
  /\ UNCHANGED svars

\* off(ev, h), called from outside any handler
BusOff(ev, h) ==
  /\ bus.stack = <<>>
  /\ bus' = off(bus, ev, Wrapper(h, 0))
  /\ bus' # bus
  /\ UNCHANGED svars

\* off(ev), called from outside any handler
BusOffAll(ev) ==
  /\ bus.stack = <<>>
  /\ bus.listeners[ev] # <<>>
  /\ bus' = offAll(bus, ev)
  /\ UNCHANGED svars

\* emit(ev, arg) is called from outside any handler
BusEmit(ev) ==
  /\ bus.stack = <<>>
  /\ bus.nEmit < MaxEmits
  /\ bus' = [bus EXCEPT !.nEmit = @ + 1,
                        !.stack = <<EmitFrame(bus, ev, bus.nEmit + 1, TRUE)>>]
  /\ UNCHANGED svars

\* forEach of the innermost emit calls the listener at its index; a wrapper
\* first deregisters itself; the handler then runs and either returns or
\* (reemit) calls emit for the same event with the same argument
BusCall(reemit) ==
  /\ bus.stack # <<>>
  /\ LET d  == Len(bus.stack)
         f  == bus.stack[d]
     IN  /\ f.k < f.len
         /\ f.k < Len(bus.listeners[f.ev])
         /\ reemit => d < MaxDepth
         /\ LET fn == bus.listeners[f.ev][f.k + 1]
                b1 == IF fn.w > 0 THEN wrappedHandler(bus, f.ev, fn) ELSE bus
                f1 == [f EXCEPT !.k = @ + 1, !.called = Append(@, fn),
                                !.clean = @ /\ ~reemit]
            IN  bus' = [b1 EXCEPT
                          !.count = IF fn.w > 0 THEN [@ EXCEPT ![fn.w] = @ + 1] ELSE @,
                          !.re    = IF fn.w > 0 THEN [@ EXCEPT ![fn.w] = @ \/ reemit] ELSE @,
                          !.stack = IF reemit
                                    THEN Append([@ EXCEPT ![d] = f1],
                                                EmitFrame(b1, f.ev, f.arg, FALSE))
                                    ELSE [@ EXCEPT ![d] = f1]]
  /\ UNCHANGED svars

\* forEach of the innermost emit finds no element at its index
BusSkip ==
  /\ bus.stack # <<>>
  /\ LET d == Len(bus.stack)
         f == bus.stack[d]
     IN  /\ f.k < f.len
         /\ f.k >= Len(bus.listeners[f.ev])
         /\ bus' = [bus EXCEPT !.stack[d].k = @ + 1]
  /\ UNCHANGED svars

\* the innermost emit returns
BusReturn ==
  /\ bus.stack # <<>>
  /\ bus.stack[Len(bus.stack)].k >= bus.stack[Len(bus.stack)].len
  /\ bus' = [bus EXCEPT !.stack = SubSeq(@, 1, Len(@) - 1)]
  /\ UNCHANGED svars

NextBus ==
  \/ \E ev \in BusEvents, h \in Handlers : BusOn(ev, h)
  \/ \E ev \in BusEvents, h \in Handlers : BusOnce(ev, h)
  \/ \E ev \in BusEvents, h \in Handlers : BusOff(ev, h)
  \/ \E ev \in BusEvents : BusOffAll(ev)
  \/ \E ev \in BusEvents : BusEmit(ev)
  \/ \E reemit \in BOOLEAN : BusCall(reemit)
  \/ BusSkip
  \/ BusReturn

SpecBus == InitBus /\ [][NextBus]_vars

\* ------------------------------------------------------- reading the log
Log(s) == scale[s].log

\* the entries of session s for event ev
Sel(s, ev) == SelectSeq(Log(s), LAMBDA e : e.ev = ev)

\* the entries of session s for event ev that belong to notification n
SelN(s, ev, n) == SelectSeq(Log(s), LAMBDA e : e.ev = ev /\ e.n = n)

Evs(s)     == [i \in 1 .. Len(Log(s)) |-> Log(s)[i].ev]
Writes(s)  == [i \in 1 .. Len(Sel(s, "write")) |-> Sel(s, "write")[i].buf]
DataIds(s) == [i \in 1 .. Len(Sel(s, "data")) |-> Sel(s, "data")[i].val]

\* position in the log of the first entry for ev that belongs to n (0: none)
Pos(s, ev, n) ==
  IF \E i \in 1 .. Len(Log(s)) : Log(s)[i].ev = ev /\ Log(s)[i].n = n
  THEN CHOOSE i \in 1 .. Len(Log(s)) :
         /\ Log(s)[i].ev = ev /\ Log(s)[i].n = n
         /\ \A j \in 1 .. i - 1 : ~(Log(s)[j].ev = ev /\ Log(s)[j].n = n)
  ELSE 0

\* the frame of the n-th notification of session s
FrameOf(s, n) == Log(s)[Pos(s, "data", n)].buf

IsPending(s, n) == \E i \in 1 .. Len(scale[s].pending) : scale[s].pending[i].n = n

IsWeightSample(buf) == At(buf, 0) = 16
IsSettled(buf)      == IsWeightSample(buf) /\ At(buf, 5) = 1

\* the session is listening: subscribed, handler registered, timer armed
Streaming(r) == r.eventChar /\ r.notifying /\ r.handlerOn /\ r.timeoutHandle

\* ------------------------------------------------------------------ C1
\* C1: a session that received a HandshakeInit (0x12) and then a
\* HandshakeAck (0x14) notification, and nothing else, has issued exactly
\* the two handshake replies, the first right after the first notification
\* and the second right after the second, and unless its idle timer expired
\* or its owner destroyed it, it is still subscribed with the timer armed.
C1_HandshakeWrites ==
  \A s \in Sessions :
    DataIds(s) = <<18, 20>> =>
      /\ Writes(s) = <<magicBytesForFirstPacket, magicBytesForSecondPacket>>
      /\ SubSeq(Evs(s), 1, 4) = <<"data", "write", "data", "write">>
      /\ Len(Sel(s, "liveupdate")) = 0 /\ Len(Sel(s, "measurement")) = 0
      /\ ((~scale[s].didTimeout /\ scale[s].nDestroy = 0) => Streaming(scale[s]))

C1_Witness ==
  \E s \in Sessions :
    /\ DataIds(s) = <<18, 20>>
    /\ FrameOf(s, 1) = FrameInit /\ FrameOf(s, 2) = FrameAck
    /\ ~scale[s].didTimeout /\ scale[s].nDestroy = 0
    /\ scale[s].pending = <<>>

\* ------------------------------------------------------------------ C2
\* what the settled frame of notification n has caused so far, apart from
\* the measurement: one write, of the stop packet, right after data; no
\* liveupdate; at most one measurement, after the write returned
SettledSoFar(s, n) ==
  /\ Len(SelN(s, "write", n)) = 1
  /\ SelN(s, "write", n)[1].buf = stopPacket
  /\ Pos(s, "write", n) = Pos(s, "data", n) + 1
  /\ Len(SelN(s, "liveupdate", n)) = 0
  /\ Len(SelN(s, "measurement", n)) <= 1
  /\ Len(SelN(s, "measurement", n)) = 1 =>
       ~IsPending(s, n) /\ Pos(s, "measurement", n) > Pos(s, "write", n)

\* handling notification buf, and finishing a pending handlePacket, leave
\* the subscription and the timer of the session in place
StaysOpen(s) ==
  LET r == scale[s]
  IN  /\ \A buf \in Frames :
           (Streaming(r) /\ IsSettled(buf)) => Streaming(handleValueChange(r, buf))
      /\ \A i \in 1 .. Len(r.pending) :
           LET r2 == afterSendCommand([r EXCEPT !.pending = Remove(@, i)], r.pending[i])
           IN  /\ r2.eventChar = r.eventChar /\ r2.notifying = r.notifying
               /\ r2.handlerOn = r.handlerOn /\ r2.timeoutHandle = r.timeoutHandle
               /\ r2.nDestroy = r.nDestroy

\* C2 as stated: every settled WeightSample whose handling is over caused one
\* write of the stop packet, then exactly one measurement, and no liveupdate
C2_SettledAlwaysMeasured ==
  \A s \in Sessions : \A n \in 1 .. scale[s].nRecv :
    (IsSettled(FrameOf(s, n)) /\ ~IsPending(s, n)) =>
      /\ Len(SelN(s, "write", n)) = 1
      /\ SelN(s, "write", n)[1].buf = stopPacket
      /\ Len(SelN(s, "liveupdate", n)) = 0
      /\ Len(SelN(s, "measurement", n)) = 1

\* C2 (amended): handling a settled WeightSample issues exactly one write, of
\* the stop packet, and emits no liveupdate; when that write returns the
\* measurement is emitted, exactly once; when that write raises no
\* measurement is emitted for the frame; the session stays subscribed.
C2_SettledMeasuredWhenWritten ==
  /\ [](\A s \in Sessions :
          /\ StaysOpen(s)
          /\ \A n \in 1 .. scale[s].nRecv :
               IsSettled(FrameOf(s, n)) => SettledSoFar(s, n))
  /\ [][\A s \in Sessions : \A i \in 1 .. Len(scale[s].pending) :
          LET w == scale[s].pending[i]
          IN  w.then = "measurement" =>
                /\ WriteOk(s, i) =>
                     /\ Len(scale'[s].log) = Len(scale[s].log) + 1
                     /\ scale'[s].log[Len(scale'[s].log)].ev = "measurement"
                     /\ scale'[s].log[Len(scale'[s].log)].n = w.n
                /\ WriteFail(s, i) => scale'[s].log = scale[s].log]_vars

C2_Witness ==
  \E s \in Sessions : \E n \in 1 .. scale[s].nRecv :
    /\ IsSettled(FrameOf(s, n))
    /\ Len(SelN(s, "measurement", n)) = 1
    /\ scale[s].notifying /\ scale[s].timeoutHandle

\* ------------------------------------------------------------------ C3
\* the weight the frame encodes, in hundredths: 256 * byte 3 + byte 4
WeightOf(buf) == 256 * buf[4] + buf[5]

\* C3: the payload of every liveupdate and measurement is the weight that
\* the frame of its notification encodes, and is never undefined
C3_PayloadIsWeight ==
  \A s \in Sessions : \A i \in 1 .. Len(Log(s)) :
    LET e == Log(s)[i]
    IN  (e.ev \in {"liveupdate", "measurement"} /\ Len(FrameOf(s, e.n)) >= 6) =>
          /\ e.val # Undefined
          /\ e.val = WeightOf(FrameOf(s, e.n))

\* ------------------------------------------------------------------ C4
\* C4: a session whose idle timer expired has emitted timeout exactly once,
\* has called stopNotifications exactly once and removed the valuechanged
\* handler exactly once, and has no timer and no handler left
C4_TimeoutClosesOnce ==
  \A s \in Sessions :
    scale[s].didTimeout =>
      /\ Len(Sel(s, "timeout")) = 1
      /\ scale[s].nStop = 1
      /\ scale[s].nOff = 1
      /\ ~scale[s].timeoutHandle /\ ~scale[s].handlerOn

\* ------------------------------------------------------------------ C5
Active(s) == scale[s].timeoutHandle \/ scale[s].notifying

\* C5: when the loop is about to connect again, destroy() was called on the
\* session that ended; at most one session has an armed timer or a live
\* subscription
C5_OneActiveSession ==
  /\ \A s \in Sessions :
       (pc = "connect" /\ cur = s /\ scale[s].raiseFlag = "resolved")
         => scale[s].nDestroy >= 1
  /\ Cardinality({s \in Sessions : Active(s)}) <= 1

\* ------------------------------------------------------------------ C6
\* C6: every invocation of the connector either raised or created a
\* session, so the first session starts at invocation N+1 after N failures;
\* a failed attempt leads to the delay and the next attempt; with once
\* unset the loop, once entered, never exits
C6_RetryUntilConnected ==
  /\ [](nConnect = nFail + cur)
  /\ [][nFail' = nFail + 1 => pc' = "delay"]_vars
  /\ [][(~once /\ pc # "defaultAdapter") => pc' # "done"]_vars

C6_Witness ==
  /\ ~once
  /\ cur = 1 /\ pc = "waitFlag" /\ scale[1].log = <<>>
  /\ nFail = MaxFails /\ nConnect = MaxFails + 1

\* ------------------------------------------------------------------ C7
\* C7: a session on which destroy() was called twice has called
\* stopNotifications at most once and has emitted timeout at most once
C7_DestroyTwice ==
  \A s \in Sessions :
    scale[s].nDestroy >= 2 =>
      scale[s].nStop <= 1 /\ Len(Sel(s, "timeout")) <= 1

\* ------------------------------------------------------------------ C8
\* C8: after destroy() completed on a session that was listening there is no
\* timer, no subscription, and no handler registered for any event
C8_DestroyClearsAll ==
  \A s \in Sessions :
    (scale[s].nDestroy >= 1 /\ scale[s].nStop >= 1
       /\ scale[s].stopPending = 0 /\ ~scale[s].eventChar) =>
      /\ ~scale[s].timeoutHandle
      /\ ~scale[s].notifying
      /\ \A ev \in DOMAIN scale[s].listeners : scale[s].listeners[ev] = <<>>

\* ------------------------------------------------------------------ C9
\* C9: an emit call, inside which no handler emitted again, has called
\* when it returns exactly the listeners that were registered when it
\* started, each once and in registration order
C9_EmitCallsAll ==
  \A d \in 1 .. Len(bus.stack) :
    LET f == bus.stack[d]
    IN  (f.clean /\ f.k >= f.len) => f.called = f.snap

\* ----------------------------------------------------------------- C10
\* C10: each wrapper that once() registered has invoked its handler at most
\* once, whatever was emitted since, re-entrant emits included
C10_OnceAtMostOnce ==
  \A w \in 1 .. bus.nReg : bus.count[w] <= 1

\* a once handler was invoked, emitted the same event again from inside
\* itself, and every emit has returned
C10_Witness ==
  /\ bus.stack = <<>>
  /\ \E w \in 1 .. bus.nReg : bus.count[w] = 1 /\ bus.re[w]

\* ----------------------------------------------------------------- C11
\* C11: with once set the loop runs one iteration only: the connector is
\* invoked at most once, and the loop has exited as soon as the first
\* session ended or the first attempt raised
C11_OnceSingleIteration ==
  once =>
    /\ nConnect <= 1
    /\ (nFail >= 1 => pc = "done")
    /\ (destroyScaleSession # 0 => pc = "done")

\* ----------------------------------------------------------------- C12
\* C12: when the supervisor has exited, the top-level bluetooth resource
\* was released exactly once and destroy() was invoked exactly once on the
\* most recently created session, also when that session had already
\* destroyed itself on timeout
C12_ReleasedExactlyOnce ==
  pc = "done" =>
    /\ nBtDestroy = 1
    /\ cur >= 1 => scale[cur].nDestroy = 1

\* ----------------------------------------------------------------- C13
\* C13: with once unset, after session s emitted timeout the supervisor
\* eventually begins a connection attempt that comes after s: it is at the
\* connector call, or has already created a later session
C13_TimeoutLeadsToConnect ==
  \A s \in Sessions :
    (~once /\ scale[s].constructed /\ Len(Sel(s, "timeout")) >= 1)
      ~> (pc = "connect" \/ cur > s)

\* the session the supervisor was waiting on timed out and the supervisor
\* is at the connector call again
C13_Witness ==
  \E s \in Sessions :
    /\ ~once /\ cur = s /\ pc = "connect"
    /\ Evs(s) = <<"timeout">>
    /\ scale[s].raiseFlag = "resolved"

\* ----------------------------------------------------------------- C14
\* every buffer of length 0, 1 or 2 over a few bytes, the three known ids
\* among them
ShortBytes   == {16, 18, 20, 33, 1}
ShortBuffers ==
  {<<>>} \cup {<<a>> : a \in ShortBytes} \cup {<<a, b>> : a, b \in ShortBytes}

\* the handshake reply handlePacket writes for a packet id, if any
ReplyTo(id) ==
  IF id = 18 THEN <<magicBytesForFirstPacket>>
  ELSE IF id = 20 THEN <<magicBytesForSecondPacket>>
  ELSE <<>>

\* the log entries that handling buf would add in the state of session s
Added(s, buf) ==
  LET r2 == handleValueChange(scale[s], buf)
  IN  SubSeq(r2.log, Len(Log(s)) + 1, Len(r2.log))

C15_EveryNotificationRearms ==
  \A s \in Sessions :
    (scale[s].eventChar /\ ~scale[s].didTimeout /\ scale[s].nDestroy = 0) =>
      /\ Len(Sel(s, "data")) = scale[s].nRecv
      /\ \A n \in 1 .. scale[s].nRecv :
           Sel(s, "data")[n].val = parseIncomingPacket(Sel(s, "data")[n].buf).packetId
      /\ scale[s].nArm = 1 + scale[s].nRecv
      /\ scale[s].timeoutHandle

\* ----------------------------------------------------------------- C16
\* C16: once destroy() has been invoked on a session its idle timer is not
\* armed, so it cannot expire and emit timeout, also after a notification
\* that arrived while the unsubscribe was pending or after it completed
C16_NoTimerAfterDestroy ==
  \A s \in Sessions :
    scale[s].nDestroy >= 1 => ~scale[s].timeoutHandle

\* ----------------------------------------------------------------- C17
\* C17: the handling of one notification is over before the handling of the
\* next one starts: in the order they happened, the data, write, liveupdate
\* and measurement entries never go back to an earlier notification, so
\* liveupdate and measurement follow the order of their notifications
C17_HandlingSerialized ==
  \A s \in Sessions : \A i, j \in 1 .. Len(Log(s)) :
    (i < j /\ Log(s)[i].ev # "timeout" /\ Log(s)[j].ev # "timeout")
      => Log(s)[i].n <= Log(s)[j].n

\* ----------------------------------------------------------------- C18
\* C18: after a session emitted timeout it emits no data, liveupdate or
\* measurement and issues no write: timeout is the last entry of its log
C18_ClosedIsTerminal ==
  \A s \in Sessions : \A i \in 1 .. Len(Log(s)) :
    Log(s)[i].ev = "timeout" => i = Len(Log(s))

\* ----------------------------------------------------------------- C19
\* C19 as stated: every WeightSample notification whose flag byte is not 1
\* caused exactly one liveupdate, no write and no measurement
C19_UnsettledEmitsLive ==
  \A s \in Sessions : \A n \in 1 .. scale[s].nRecv :
    (IsWeightSample(FrameOf(s, n)) /\ ~IsSettled(FrameOf(s, n))) =>
      /\ Len(SelN(s, "liveupdate", n)) = 1
      /\ Len(SelN(s, "write", n)) = 0
      /\ Len(SelN(s, "measurement", n)) = 0

\* C19 (amended): a WeightSample notification whose flag byte is 0 caused
\* exactly one liveupdate, right after its data; one whose flag byte is
\* neither 0 nor 1, or is missing, caused no liveupdate; neither caused a
\* write or a measurement
C19_LiveOnlyOnFlagZero ==
  \A s \in Sessions : \A n \in 1 .. scale[s].nRecv :
    LET buf == FrameOf(s, n)
    IN  (IsWeightSample(buf) /\ ~IsSettled(buf)) =>
          /\ Len(SelN(s, "write", n)) = 0
          /\ Len(SelN(s, "measurement", n)) = 0
          /\ Len(SelN(s, "liveupdate", n)) = (IF At(buf, 5) = 0 THEN 1 ELSE 0)
          /\ At(buf, 5) = 0 => Pos(s, "liveupdate", n) = Pos(s, "data", n) + 1

\* a session handled a WeightSample with flag 2 and then one with flag 0
C19_Witness ==
  \E s \in Sessions :
    /\ scale[s].nRecv = 2
    /\ FrameOf(s, 1) = FrameOddFlag /\ FrameOf(s, 2) = FrameLive
    /\ Evs(s) = <<"data", "data", "liveupdate">>

\* ----------------------------------------------------------------- C20
\* the packet id is none of 0x10, 0x12, 0x14
IsUnrecognized(buf) == At(buf, 0) \notin {16, 18, 20}

\* the fields of a session that handling a notification may not change when
\* the packet is not recognized: everything but the log, the count of
\* notifications and the timer
Untouched(r) ==
  [r EXCEPT !.log = <<>>, !.nRecv = 0, !.nArm = 0, !.timeoutHandle = FALSE]

\* C20: a notification whose packet id is none of 0x10, 0x12, 0x14, handled
\* by a listening session, is delivered as data and re-arms the idle timer;
\* it causes no write, no liveupdate, no measurement and no other change of
\* the session, which still accepts the next notification
C20_UnknownOnlyData ==
  /\ [](\A s \in Sessions : \A buf \in AnyFrames :
          (IsUnrecognized(buf) /\ Streaming(scale[s]) /\ ~scale[s].didTimeout) =>
            LET r2 == handleValueChange(scale[s], buf)
            IN  /\ Untouched(r2) = Untouched(scale[s])
                /\ r2.log = Append(Log(s), Entry("data", scale[s].nRecv + 1,
                                                 At(buf, 0), buf))
                /\ r2.nRecv = scale[s].nRecv + 1
                /\ r2.nArm = scale[s].nArm + 1
                /\ Streaming(r2) /\ ~r2.didTimeout)
  /\ [](\A s \in Sessions : \A n \in 1 .. scale[s].nRecv :
          IsUnrecognized(FrameOf(s, n)) =>
            /\ Len(SelN(s, "data", n)) = 1
            /\ Len(SelN(s, "write", n)) = 0
            /\ Len(SelN(s, "liveupdate", n)) = 0
            /\ Len(SelN(s, "measurement", n)) = 0)
  /\ [][\A buf \in AnyFrames :
          (IsUnrecognized(buf) /\ SessionNotify(buf)) =>
            /\ scale'[1].timeoutHandle
            /\ scale'[1].pending = scale[1].pending
            /\ scale'[1].listeners = scale[1].listeners]_vars

\* a session handled a frame with the unknown id 0x21 and then a
\* HandshakeInit, which it answered
C20_Witness ==
  \E s \in Sessions :
    /\ scale[s].nRecv = 2
    /\ FrameOf(s, 1) = FrameUnknown /\ FrameOf(s, 2) = FrameInit
    /\ Evs(s) = <<"data", "data", "write">>
    /\ Streaming(scale[s])
====
